---- MODULE Spec2Model ----
(***************************************************************************)
(* The order-processing pipeline of pyoseo: the three celery tasks of      *)
(* oseoserver/tasks.py (process_normal_order, process_batch,               *)
(* process_order_item) running on a pool of workers over the Order and     *)
(* OrderItem rows of the database, with the post_init / pre_save signal    *)
(* handlers of oseoserver/signals/handlers.py that maintain                *)
(* status_changed_on.                                                      *)
(*                                                                         *)
(* A task message is [kind, arg].  A worker that runs a task holds a run   *)
(* record (the workers are interchangeable, so the pool is the bag of the  *)
(* runs in progress): its position in the task body (pc), the instance it  *)
(* has loaded (inst: a private in-memory copy of the row, written back     *)
(* whole by save()), the value returned by move(), the exception that      *)
(* ended it.                                                               *)
(* Two fields of the run record are history only: entry (the persisted     *)
(* status of the task's target when the worker took the task) and invoked  *)
(* (the external collaborator calls the run has made, in order).           *)
(***************************************************************************)
EXTENDS Naturals, Integers, Sequences, FiniteSets, Bags, TLC

\* ---------------------------------------------------------------- bounds
NumOrders == 1
NumBatches == 2
NumItems == 3
NumWorkers == 2
MaxCalls == 2
MaxStarts == 6

\* ------------------------------------------------------------- constants
\* A null DateTimeField (status_changed_on, completed_on are null=True).
Null == 0

Orders == 1 .. NumOrders
Batches == 1 .. NumBatches
Items == 1 .. NumItems
\* Primary keys a caller may pass: the last one of each range names no row.
OrderIds == 1 .. (NumOrders + 1)
BatchIds == 1 .. (NumBatches + 1)
\* Catalogue identifiers a caller may pass: the last one names no order item.
Identifiers == 1 .. (NumItems + 1)

PROCESSING_STATES ==
    {"Submitted", "Accepted", "InProduction", "Suspended", "Cancelled",
     "Completed", "Failed", "Terminated", "Downloaded"}
SUBMITTED == "Submitted"
IN_PRODUCTION == "InProduction"
COMPLETED == "Completed"

\* Batch.order (ForeignKey, related_name='batches'): the last batch belongs to
\* the last order, every other batch to order 1.
OrderOf(b) == IF b = NumBatches THEN NumOrders ELSE 1
\* OrderItem.batch: the last item is the only item of the last batch, the
\* other items are in batch 1.
BatchOf(i) == IF i = NumItems THEN NumBatches ELSE 1

VARIABLES
    orders,      \* Order rows: [status, status_changed_on]
    items,       \* OrderItem rows: [status, status_changed_on, file_name, completed_on]
    identifier,  \* OrderItem.identifier of each row (not unique in the schema)
    queue,       \* the broker: a bag of task messages [kind, arg]
    running,     \* the worker pool: the bag of the runs in progress
    clock,       \* the wall clock, advanced by every reading of it
    calls,       \* number of task invocations made from outside so far
    started,     \* number of messages the workers have taken so far
    request,     \* the order specification an operation is classifying
    returned     \* the OrderType _get_order_type returned for it, by name

vars == <<orders, items, identifier, queue, running, clock, calls, started,
          request, returned>>

\* ------------------------------------------------------------- instances
NoInst ==
    [id |-> 0, status |-> "", old_status |-> "", status_changed_on |-> Null,
     file_name |-> "", completed_on |-> Null]
NoMoved == [none |-> TRUE, path |-> << >>]
\* A run as a worker begins it.
NewRun ==
    [kind |-> "", arg |-> 0, pc |-> "", error |-> "", inst |-> NoInst,
     moved |-> NoMoved, invoked |-> << >>, entry |-> ""]

\* order.batches.all()
BatchesOfOrder(o) == {b \in Batches : OrderOf(b) = o}
\* batch.order_items.all()
ItemsOfBatch(b) == {i \in Items : BatchOf(i) = b}
\* OrderItem.objects.filter(identifier=...)
ItemsWithIdentifier(ident) == {i \in Items : identifier[i] = ident}

\* os.path.basename of a path given as its sequence of components
Basename(path) == IF Len(path) = 0 THEN "" ELSE path[Len(path)]

\* What preparator.move() may return: None, or the path of the moved file.
MovedPaths == {<<"outdir", "product">>}
MovedResults ==
    {NoMoved} \cup {[none |-> FALSE, path |-> p] : p \in MovedPaths}

\* ------------------------------------------------------- signal handlers
\* post_init of Order: order.old_status = order.status
get_old_status_order(inst) == [inst EXCEPT !.old_status = inst.status]
\* post_init of OrderItem
get_old_status_order_item(inst) == [inst EXCEPT !.old_status = inst.status]

\* pre_save of Order
update_status_changed_on_by_order(inst, now) ==
    IF inst.status_changed_on = Null \/ inst.status # inst.old_status
    THEN [inst EXCEPT !.status_changed_on = now]
    ELSE inst
\* Mutant of update_status_changed_on_by_order_item: the handler stamps only
\* when the status differs from the one observed at load.
update_status_changed_on_by_order_item_OnlyOnChange(inst, now) ==
    IF inst.status # inst.old_status
    THEN [inst EXCEPT !.status_changed_on = now]
    ELSE inst
\* pre_save of OrderItem
update_status_changed_on_by_order_item(inst, now) ==
    IF inst.status_changed_on = Null \/ inst.status # inst.old_status
    THEN [inst EXCEPT !.status_changed_on = now]
    ELSE inst

\* Whether the pre_save handler reads the clock for this instance.
ReadsClock(inst) ==
    inst.status_changed_on = Null \/ inst.status # inst.old_status

\* Order.objects.get(pk=...) : the instance built from the row, post_init run
LoadOrder(o) ==
    get_old_status_order(
        [NoInst EXCEPT !.id = o, !.status = orders[o].status,
                       !.status_changed_on = orders[o].status_changed_on])
\* OrderItem.objects.get(...) : the instance built from the row, post_init run
LoadItem(i) ==
    get_old_status_order_item(
        [NoInst EXCEPT !.id = i, !.status = items[i].status,
                       !.status_changed_on = items[i].status_changed_on,
                       !.file_name = items[i].file_name,
                       !.completed_on = items[i].completed_on])

\* The row save() writes: every field of the instance.
OrderRow(inst) ==
    [status |-> inst.status, status_changed_on |-> inst.status_changed_on]
ItemRow(inst) ==
    [status |-> inst.status, status_changed_on |-> inst.status_changed_on,
     file_name |-> inst.file_name, completed_on |-> inst.completed_on]

\* ------------------------------------------------------- order type
\* A Python value that is None or a string.
PyNone == [none |-> TRUE, str |-> ""]
PyStr(s) == [none |-> FALSE, str |-> s]

\* OrderType.name: the names an OrderType row can have (unique).
OrderTypeNames == {"PRODUCT_ORDER", "MASSIVE_ORDER", "SUBSCRIPTION_ORDER"}
PRODUCT_ORDER == "PRODUCT_ORDER"
\* The order types of the OSEO standard, as an order specification names them.
OseoOrderTypes == {"PRODUCT_ORDER", "SUBSCRIPTION_ORDER", "TASKING_ORDER"}
\* The orderReference of an order specification: absent, or free text.
OrderReferences ==
    {PyNone} \cup {PyStr(s) : s \in {"", "MASSIVE_ORDER", "Massive order", "other"}}
\* settings.OSEOSERVER_MASSIVE_ORDER_REFERENCE: not set, or free text.
MassiveReferences ==
    {PyNone} \cup {PyStr(s) : s \in {"", "MASSIVE_ORDER", "Massive order"}}
\* What _get_order_type is given: the specification and the settings.
Requests ==
    [orderType : OseoOrderTypes, orderReference : OrderReferences,
     massive_reference : MassiveReferences]
NoRequest ==
    [orderType |-> "", orderReference |-> PyNone, massive_reference |-> PyNone]
\* No order type returned (yet).
NoOrderType == ""

\* OseoOperation._c: '' if value is None else str(value)
_c(value) == IF value.none THEN "" ELSE value.str

\* models.OrderType.objects.get(name=...): the row of that name, or the
\* exception DoesNotExist.
OrderTypeGet(name) == IF name \in OrderTypeNames THEN name ELSE "DoesNotExist"

\* OseoOperation._get_order_type: the OrderType returned, by name, or the
\* exception a lookup raised.
_get_order_type(order_specification) ==
    LET order_type == order_specification.orderType
        result == OrderTypeGet(order_type)
        ref == _c(order_specification.orderReference)
        massive_reference == order_specification.massive_reference
    IN
    IF result = "DoesNotExist" THEN result
    ELSE IF order_type = PRODUCT_ORDER
              /\ ~massive_reference.none /\ ref = massive_reference.str
         THEN OrderTypeGet(massive_reference.str)
         ELSE result

\* ------------------------------------------------------------------ Init
Init ==
    /\ orders = [o \in Orders |-> [status |-> SUBMITTED, status_changed_on |-> Null]]
    /\ items = [i \in Items |->
                 [status |-> SUBMITTED, status_changed_on |-> Null,
                  file_name |-> "", completed_on |-> Null]]
    \* every item has its own catalogue identifier, except that the last item
    \* (of another order) may be the same product as item 1
    /\ identifier \in {f \in [Items -> Identifiers] :
                         /\ \A i \in Items : i < NumItems => f[i] = i
                         /\ f[NumItems] \in {1, NumItems}}
    /\ queue = EmptyBag
    /\ running = EmptyBag
    /\ clock = 1
    /\ calls = 0
    /\ started = 0
    /\ request = NoRequest
    /\ returned = NoOrderType

\* --------------------------------------------------------------- broker
Msg(kind, arg) == [kind |-> kind, arg |-> arg]

\* The arguments a caller outside the pipeline can give each task.
TaskArgs(kind) ==
    CASE kind = "order" -> OrderIds
      [] kind = "batch" -> BatchIds
      [] kind = "item" -> Identifiers

\* Mutant of BatchTasksOf: the loop over order.batches.all() stops after the
\* first batch.
BatchTasksOf_OnlyFirst(o) ==
    SetToBag({Msg("batch", b) : b \in {c \in BatchesOfOrder(o) :
                                         \A d \in BatchesOfOrder(o) : c <= d}})

\* g of process_normal_order: one process_batch signature per batch of the order
BatchTasksOf(o) == SetToBag({Msg("batch", b) : b \in BatchesOfOrder(o)})

\* Mutant of ItemTasksOf: every signature is put in the group twice.
ItemTasksOf_Twice(b) ==
    [m \in {Msg("item", identifier[i]) : i \in ItemsOfBatch(b)} |->
        2 * Cardinality({i \in ItemsOfBatch(b) : identifier[i] = m.arg})]

\* g of process_batch: one process_order_item signature per item of the batch,
\* each carrying the item's identifier
ItemTasksOf(b) ==
    [m \in {Msg("item", identifier[i]) : i \in ItemsOfBatch(b)} |->
        Cardinality({i \in ItemsOfBatch(b) : identifier[i] = m.arg})]

\* History: the persisted status of the row a task is about, when it is taken.
EntryStatus(m) ==
    CASE m.kind = "order" ->
            IF m.arg \in Orders THEN orders[m.arg].status ELSE "none"
      [] m.kind = "item" ->
            IF Cardinality(ItemsWithIdentifier(m.arg)) = 1
            THEN items[CHOOSE i \in ItemsWithIdentifier(m.arg) : TRUE].status
            ELSE "none"
      [] OTHER -> "none"

FirstPc(kind) == IF kind = "item" THEN "resolve" ELSE "get"

\* A shared_task applied from outside the pipeline: the protocol layer
\* submitting an order, or the broker delivering a message once more.
CallTask(kind, arg) ==
    /\ calls < MaxCalls
    /\ calls' = calls + 1
    /\ queue' = queue (+) SetToBag({Msg(kind, arg)})
    /\ UNCHANGED <<orders, items, identifier, running, clock, started>>
    /\ UNCHANGED <<request, returned>>

\* The pool with one run advanced to its next position.
Advance(run, next) == (running (-) SetToBag({run})) (+) SetToBag({next})

\* A free worker of the pool takes a message; messages are taken in any order.
\* (MaxStarts bounds how many the workers take in one exploration.)
StartTask(m) ==
    /\ BagCardinality(running) < NumWorkers
    /\ started < MaxStarts
    /\ started' = started + 1
    /\ BagIn(m, queue)
    /\ queue' = queue (-) SetToBag({m})
    /\ running' = running (+) SetToBag({
                     [NewRun EXCEPT !.kind = m.kind, !.arg = m.arg,
                                    !.pc = FirstPc(m.kind),
                                    !.entry = EntryStatus(m)]})
    /\ UNCHANGED <<orders, items, identifier, clock, calls>>
    /\ UNCHANGED <<request, returned>>

\* The task has returned or raised: the worker is free again.
Finish(run) ==
    /\ run.pc \in {"done", "raised"}
    /\ running' = running (-) SetToBag({run})
    /\ UNCHANGED <<orders, items, identifier, queue, clock, calls, started>>
    /\ UNCHANGED <<request, returned>>

Raised(run, exc) == [run EXCEPT !.pc = "raised", !.error = exc]

\* Mutant of OrderGet: the except clause logs the error and does not re-raise.
OrderGet_Swallow(run) ==
    /\ run.kind = "order" /\ run.pc = "get"
    /\ running' = Advance(run,
                     IF run.arg \in Orders
                     THEN [run EXCEPT !.inst = LoadOrder(run.arg), !.pc = "save"]
                     ELSE [run EXCEPT !.pc = "spawn"])
    /\ UNCHANGED <<orders, items, identifier, queue, clock, calls, started>>
    /\ UNCHANGED <<request, returned>>

\* ------------------------------------------------- process_normal_order
\* order = models.Order.objects.get(pk=order_id), ObjectDoesNotExist re-raised
OrderGet(run) ==
    /\ run.kind = "order" /\ run.pc = "get"
    /\ running' = Advance(run,
                     IF run.arg \in Orders
                     THEN [run EXCEPT !.inst = LoadOrder(run.arg), !.pc = "save"]
                     ELSE Raised(run, "ObjectDoesNotExist"))
    /\ UNCHANGED <<orders, items, identifier, queue, clock, calls, started>>
    /\ UNCHANGED <<request, returned>>

\* Mutant of OrderSave: the status is set on the instance but the instance is
\* not saved before the batch tasks are sent.
OrderSave_NotSaved(run) ==
    LET set == [run.inst EXCEPT !.status = IN_PRODUCTION] IN
    /\ run.kind = "order" /\ run.pc = "save"
    /\ running' = Advance(run, [run EXCEPT !.inst = set, !.pc = "spawn"])
    /\ UNCHANGED <<orders, items, identifier, queue, clock, calls, started>>
    /\ UNCHANGED <<request, returned>>

\* order.status = IN_PRODUCTION; order.save()
OrderSave(run) ==
    LET set == [run.inst EXCEPT !.status = IN_PRODUCTION]
        saved == update_status_changed_on_by_order(set, clock)
    IN
    /\ run.kind = "order" /\ run.pc = "save"
    /\ orders' = [orders EXCEPT ![saved.id] = OrderRow(saved)]
    /\ clock' = IF ReadsClock(set) THEN clock + 1 ELSE clock
    /\ running' = Advance(run, [run EXCEPT !.inst = saved, !.pc = "spawn"])
    /\ UNCHANGED <<items, identifier, queue, calls, started>>
    /\ UNCHANGED <<request, returned>>

\* group(g).apply_async(): the batch tasks are sent, nothing waits for them
OrderSpawn(run) ==
    /\ run.kind = "order" /\ run.pc = "spawn"
    /\ queue' = queue (+) BatchTasksOf(run.inst.id)
    /\ running' = Advance(run, [run EXCEPT !.pc = "done"])
    /\ UNCHANGED <<orders, items, identifier, clock, calls, started>>
    /\ UNCHANGED <<request, returned>>

\* --------------------------------------------------------- process_batch
\* batch = models.Batch.objects.get(pk=batch_id), ObjectDoesNotExist re-raised;
\* then one item task per item of the batch is sent
BatchRun(run) ==
    /\ run.kind = "batch" /\ run.pc = "get"
    /\ IF run.arg \in Batches
       THEN /\ queue' = queue (+) ItemTasksOf(run.arg)
            /\ running' = Advance(run, [run EXCEPT !.pc = "done"])
       ELSE /\ queue' = queue
            /\ running' = Advance(run, Raised(run, "ObjectDoesNotExist"))
    /\ UNCHANGED <<orders, items, identifier, clock, calls, started>>
    /\ UNCHANGED <<request, returned>>

\* ---------------------------------------------------- process_order_item
Invoke(run, step) == [run EXCEPT !.invoked = Append(run.invoked, step)]

\* id, title = csw_interface.get_records([order_item_id])[0]; an identifier
\* the catalogue does not hold gives IndexError, logged and re-raised
ItemResolve(run) ==
    LET called == Invoke(run, "resolve") IN
    /\ run.kind = "item" /\ run.pc = "resolve"
    /\ \/ running' = Advance(run, [called EXCEPT !.pc = "get"])
       \/ running' = Advance(run, Raised(called, "IndexError"))
    /\ UNCHANGED <<orders, items, identifier, queue, clock, calls, started>>
    /\ UNCHANGED <<request, returned>>

\* order_item = models.OrderItem.objects.get(identifier=order_item_id)
ItemGet(run) ==
    LET found == ItemsWithIdentifier(run.arg) IN
    /\ run.kind = "item" /\ run.pc = "get"
    /\ running' = Advance(run,
         CASE Cardinality(found) = 0 -> Raised(run, "DoesNotExist")
           [] Cardinality(found) > 1 -> Raised(run, "MultipleObjectsReturned")
           [] OTHER -> [run EXCEPT !.inst = LoadItem(CHOOSE i \in found : TRUE),
                                   !.pc = "save_in_production"])
    /\ UNCHANGED <<orders, items, identifier, queue, clock, calls, started>>
    /\ UNCHANGED <<request, returned>>

\* Mutant of ItemSaveInProduction: the status is set on the instance but the
\* instance is not saved.
ItemSaveInProduction_NotSaved(run) ==
    LET set == [run.inst EXCEPT !.status = IN_PRODUCTION] IN
    /\ run.kind = "item" /\ run.pc = "save_in_production"
    /\ running' = Advance(run, [run EXCEPT !.inst = set, !.pc = "fetch"])
    /\ UNCHANGED <<orders, items, identifier, queue, clock, calls, started>>
    /\ UNCHANGED <<request, returned>>

\* Mutant of ItemSaveInProduction: the save of the item also marks the order
\* of the item InProduction.
ItemSaveInProduction_MarksOrder(run) ==
    LET set == [run.inst EXCEPT !.status = IN_PRODUCTION]
        saved == update_status_changed_on_by_order_item(set, clock)
    IN
    /\ run.kind = "item" /\ run.pc = "save_in_production"
    /\ items' = [items EXCEPT ![saved.id] = ItemRow(saved)]
    /\ orders' = [orders EXCEPT ![OrderOf(BatchOf(saved.id))].status = IN_PRODUCTION]
    /\ clock' = IF ReadsClock(set) THEN clock + 1 ELSE clock
    /\ running' = Advance(run, [run EXCEPT !.inst = saved, !.pc = "fetch"])
    /\ UNCHANGED <<identifier, queue, calls, started>>
    /\ UNCHANGED <<request, returned>>

\* order_item.status = IN_PRODUCTION; order_item.save()
ItemSaveInProduction(run) ==
    LET set == [run.inst EXCEPT !.status = IN_PRODUCTION]
        saved == update_status_changed_on_by_order_item(set, clock)
    IN
    /\ run.kind = "item" /\ run.pc = "save_in_production"
    /\ items' = [items EXCEPT ![saved.id] = ItemRow(saved)]
    /\ clock' = IF ReadsClock(set) THEN clock + 1 ELSE clock
    /\ running' = Advance(run, [run EXCEPT !.inst = saved, !.pc = "fetch"])
    /\ UNCHANGED <<orders, identifier, queue, calls, started>>
    /\ UNCHANGED <<request, returned>>

\* fetched = preparator.fetch(gio_file): returns, or raises
ItemFetch(run) ==
    LET called == Invoke(run, "fetch") IN
    /\ run.kind = "item" /\ run.pc = "fetch"
    /\ \/ running' = Advance(run, [called EXCEPT !.pc = "customize"])
       \/ running' = Advance(run, Raised(called, "PreparatorError"))
    /\ UNCHANGED <<orders, items, identifier, queue, clock, calls, started>>
    /\ UNCHANGED <<request, returned>>

\* Mutant of ItemCustomize: customize is also called on the unfetched file.
ItemCustomize_BeforeFetch(run) ==
    LET called == Invoke(run, "customize") IN
    /\ run.kind = "item" /\ run.pc \in {"fetch", "customize"}
    /\ \/ running' = Advance(run, [called EXCEPT !.pc = "move"])
       \/ running' = Advance(run, Raised(called, "PreparatorError"))
    /\ UNCHANGED <<orders, items, identifier, queue, clock, calls, started>>
    /\ UNCHANGED <<request, returned>>

\* customized = preparator.customize(gio_file, fetched, options=None)
ItemCustomize(run) ==
    LET called == Invoke(run, "customize") IN
    /\ run.kind = "item" /\ run.pc = "customize"
    /\ \/ running' = Advance(run, [called EXCEPT !.pc = "move"])
       \/ running' = Advance(run, Raised(called, "PreparatorError"))
    /\ UNCHANGED <<orders, items, identifier, queue, clock, calls, started>>
    /\ UNCHANGED <<request, returned>>

\* moved = preparator.move(customized): a path, None, or an exception
ItemMove(run) ==
    LET called == Invoke(run, "place") IN
    /\ run.kind = "item" /\ run.pc = "move"
    /\ \/ \E r \in MovedResults :
            running' = Advance(run, [called EXCEPT !.moved = r,
                                                   !.pc = "save_completed"])
       \/ running' = Advance(run, Raised(called, "PreparatorError"))
    /\ UNCHANGED <<orders, items, identifier, queue, clock, calls, started>>
    /\ UNCHANGED <<request, returned>>

\* Mutant of ItemSaveCompleted: the save after a successful move leaves
\* completed_on as it was loaded.
ItemSaveCompleted_NoCompletedOn(run) ==
    LET set == [run.inst EXCEPT !.file_name = Basename(run.moved.path),
                                !.status = COMPLETED]
        saved == update_status_changed_on_by_order_item(set, clock)
    IN
    /\ run.kind = "item" /\ run.pc = "save_completed"
    /\ IF ~run.moved.none
       THEN /\ items' = [items EXCEPT ![saved.id] = ItemRow(saved)]
            /\ clock' = IF ReadsClock(set) THEN clock + 1 ELSE clock
            /\ running' = Advance(run, [run EXCEPT !.inst = saved, !.pc = "done"])
       ELSE /\ UNCHANGED <<items, clock>>
            /\ running' = Advance(run, [run EXCEPT !.pc = "done"])
    /\ UNCHANGED <<orders, identifier, queue, calls, started>>
    /\ UNCHANGED <<request, returned>>

\* if moved is not None: file_name, completed_on, status = COMPLETED, save()
\* else: pass
ItemSaveCompleted(run) ==
    LET set == [run.inst EXCEPT !.file_name = Basename(run.moved.path),
                                !.completed_on = clock,
                                !.status = COMPLETED]
        saved == update_status_changed_on_by_order_item(set, clock + 1)
    IN
    /\ run.kind = "item" /\ run.pc = "save_completed"
    /\ IF ~run.moved.none
       THEN /\ items' = [items EXCEPT ![saved.id] = ItemRow(saved)]
            /\ clock' = IF ReadsClock(set) THEN clock + 2 ELSE clock + 1
            /\ running' = Advance(run, [run EXCEPT !.inst = saved, !.pc = "done"])
       ELSE /\ UNCHANGED <<items, clock>>
            /\ running' = Advance(run, [run EXCEPT !.pc = "done"])
    /\ UNCHANGED <<orders, identifier, queue, calls, started>>
    /\ UNCHANGED <<request, returned>>

\* ------------------------------------------------------------------ Next
Runs == BagToSet(running)

\* What the workers of the pool do: take a message, run a task a step on.
Work ==
    \/ \E m \in BagToSet(queue) : StartTask(m)
    \/ \E run \in Runs : Finish(run)
    \/ \E run \in Runs : OrderGet(run)
    \/ \E run \in Runs : OrderSave(run)
    \/ \E run \in Runs : OrderSpawn(run)
    \/ \E run \in Runs : BatchRun(run)
    \/ \E run \in Runs : ItemResolve(run)
    \/ \E run \in Runs : ItemGet(run)
    \/ \E run \in Runs : ItemSaveInProduction(run)
    \/ \E run \in Runs : ItemFetch(run)
    \/ \E run \in Runs : ItemCustomize(run)
    \/ \E run \in Runs : ItemMove(run)
    \/ \E run \in Runs : ItemSaveCompleted(run)

Next ==
    \/ \E kind \in {"order", "batch", "item"} :
         \E arg \in TaskArgs(kind) : CallTask(kind, arg)
    \/ Work

Spec == Init /\ [][Next]_vars

\* The workers never stop while there is a message to take or a task to run
\* on; nothing obliges a caller to call.
FairSpec == Spec /\ WF_vars(Work)

\* process_batch applied once to a batch of the database, and what the workers
\* then do with it and with the item tasks it sends.
BatchNext ==
    \/ calls = 0 /\ \E b \in Batches : CallTask("batch", b)
    \/ \E m \in BagToSet(queue) : StartTask(m)
    \/ \E run \in Runs : Finish(run)
    \/ \E run \in Runs : BatchRun(run)
    \/ \E run \in Runs : ItemResolve(run)
    \/ \E run \in Runs : ItemGet(run)
    \/ \E run \in Runs : ItemSaveInProduction(run)
    \/ \E run \in Runs : ItemFetch(run)
    \/ \E run \in Runs : ItemCustomize(run)
    \/ \E run \in Runs : ItemMove(run)
    \/ \E run \in Runs : ItemSaveCompleted(run)

BatchSpec == Init /\ [][BatchNext]_vars

\* Processing driven through process_normal_order only: the protocol layer
\* submits orders, the workers do the rest.
SubmitNext ==
    \/ \E o \in OrderIds : CallTask("order", o)
    \/ Work

SubmitSpec == Init /\ [][SubmitNext]_vars

\* Rows as the database may hold them when the tasks begin: written by the
\* tasks before, or by code that does not go through the signal handlers, so
\* that status_changed_on may be null whatever the status is.
StoredStatuses == {SUBMITTED, IN_PRODUCTION}
StoredStamps == {Null, 1}
StoredInit ==
    /\ orders \in [Orders -> [status : StoredStatuses,
                               status_changed_on : StoredStamps]]
    /\ \E row \in [status : StoredStatuses, status_changed_on : StoredStamps,
                     file_name : {""}, completed_on : {Null}] :
          items = [i \in Items |-> row]
    /\ identifier = [i \in Items |-> i]
    /\ queue = EmptyBag
    /\ running = EmptyBag
    /\ clock = 2
    /\ calls = 0
    /\ started = 0
    /\ request = NoRequest
    /\ returned = NoOrderType

StoredSpec == StoredInit /\ [][SubmitNext]_vars

\* An operation of the protocol layer classifying the order specification of
\* a request, under the settings of the deployment; the pipeline is idle.
TypeInit ==
    /\ request \in Requests
    /\ returned = NoOrderType
    /\ orders = [o \in Orders |-> [status |-> SUBMITTED, status_changed_on |-> Null]]
    /\ items = [i \in Items |->
                 [status |-> SUBMITTED, status_changed_on |-> Null,
                  file_name |-> "", completed_on |-> Null]]
    /\ identifier = [i \in Items |-> i]
    /\ queue = EmptyBag
    /\ running = EmptyBag
    /\ clock = 1
    /\ calls = 0
    /\ started = 0

\* the caller: order_type = self._get_order_type(order_specification)
Classify ==
    /\ returned = NoOrderType
    /\ returned' = _get_order_type(request)
    /\ UNCHANGED <<orders, items, identifier, queue, running, clock, calls,
                   started, request>>

TypeNext == Classify

TypeSpec == TypeInit /\ [][TypeNext]_vars

\* The messages of the tasks of an order: its own, its batches', its items'.
TasksOfOrder(o) ==
    {Msg("order", o)}
    \cup {Msg("batch", b) : b \in BatchesOfOrder(o)}
    \cup {Msg("item", identifier[i]) :
             i \in {j \in Items : OrderOf(BatchOf(j)) = o}}

\* cancelOrder(orderId), the administrative cancellation: the order, not yet
\* in a terminal status, becomes Cancelled, and the tasks of it that no worker
\* has taken yet are withdrawn from the broker.
CancelOrder(o) ==
    /\ orders[o].status \in {"Submitted", "Accepted", "InProduction", "Suspended"}
    /\ orders' = [orders EXCEPT ![o].status = "Cancelled"]
    /\ queue' = [m \in BagToSet(queue) \ TasksOfOrder(o) |-> queue[m]]
    /\ UNCHANGED <<items, identifier, running, clock, calls, started>>
    /\ UNCHANGED <<request, returned>>

\* An order submitted once, processed by the workers, and cancelled at any
\* moment of it.
CancelNext ==
    \/ calls = 0 /\ \E o \in Orders : CallTask("order", o)
    \/ Work
    \/ \E o \in Orders : CancelOrder(o)

CancelSpec == Init /\ [][CancelNext]_vars

\* ============================================================== claims
\* The terminal statuses of the status model.
TerminalStatuses == {"Completed", "Failed", "Terminated", "Cancelled", "Downloaded"}

\* The edges of the transition table of the status model.
TransitionTable ==
    {<<"Submitted", "Accepted">>, <<"Submitted", "Cancelled">>,
     <<"Accepted", "InProduction">>, <<"Accepted", "Cancelled">>,
     <<"InProduction", "Suspended">>, <<"InProduction", "Completed">>,
     <<"InProduction", "Failed">>, <<"InProduction", "Cancelled">>,
     <<"Suspended", "InProduction">>, <<"Suspended", "Cancelled">>,
     <<"Completed", "Downloaded">>}
    \cup {<<s, "Terminated">> : s \in PROCESSING_STATES}

\* One step of the pool took `run` to `next`.
Stepped(run, next) ==
    /\ BagIn(run, running)
    /\ next # run
    /\ running' = (running (-) SetToBag({run})) (+) SetToBag({next})
\* One step of the pool ended `run` (the worker was freed).
Ended(run) ==
    /\ BagIn(run, running)
    /\ running' = running (-) SetToBag({run})
\* The runs a step can lead to.
RunsAfter == BagToSet(running')

\* The only row with this identifier, when there is exactly one.
TheItem(ident) == CHOOSE i \in ItemsWithIdentifier(ident) : TRUE
UniqueIdentifier(ident) == Cardinality(ItemsWithIdentifier(ident)) = 1

\* A terminal status is kept, or goes from Completed to Downloaded.
KeepsTerminal(old, new) ==
    old \in TerminalStatuses /\ new # old
        => old = "Completed" /\ new = "Downloaded"

\* C1: no write ever changes the status of an Order or OrderItem from a
\* terminal status to a non-terminal one; the only change of a terminal
\* status is Completed -> Downloaded.
C1_TerminalNeverOverwritten ==
    [][/\ \A i \in Items : KeepsTerminal(items[i].status, items'[i].status)
       /\ \A o \in Orders : KeepsTerminal(orders[o].status, orders'[o].status)]_vars

\* C2: a run of process_order_item taken for an item whose status is already
\* terminal returns at once: none of its steps writes an item row, resolves
\* the identifier or calls fetch, customize or move, so status, file_name,
\* completed_on and status_changed_on stay as the first run left them.
C2_ProcessItemIdempotent ==
    [][\A run \in Runs :
         run.kind = "item" /\ run.entry \in TerminalStatuses =>
            /\ \A next \in RunsAfter :
                 Stepped(run, next) =>
                    items' = items /\ next.invoked = << >> /\ next.pc = "done"
            /\ Ended(run) => items' = items]_vars

\* The steps that are a save() of the row run.inst.id.
SavesItem(run) ==
    /\ run.kind = "item"
    /\ \/ run.pc = "save_in_production"
       \/ run.pc = "save_completed" /\ ~run.moved.none
SavesOrder(run) == run.kind = "order" /\ run.pc = "save"

\* A save modified status_changed_on exactly when it changed the persisted
\* status, or was the first save of the row (status_changed_on still null).
StampedIffChanged(old, new) ==
    (new.status_changed_on # old.status_changed_on)
        <=> (new.status # old.status \/ old.status_changed_on = Null)

\* C3: for every Order and OrderItem, a save modifies status_changed_on if and
\* only if the status it persists differs from the status persisted before
\* (the first save after creation counts as a change).
C3_StampedIffStatusChanged ==
    [][\A run \in Runs : \A next \in RunsAfter :
         Stepped(run, next) =>
            /\ SavesItem(run) =>
                 StampedIffChanged(items[run.inst.id], items'[run.inst.id])
            /\ SavesOrder(run) =>
                 StampedIffChanged(orders[run.inst.id], orders'[run.inst.id])]_vars

\* C4: process_normal_order taken for an order that is already InProduction
\* or terminal changes no Order or OrderItem row and sends no task.
C4_SubmitOrderIdempotent ==
    [][\A run \in Runs :
         run.kind = "order" /\ run.entry \in ({IN_PRODUCTION} \cup TerminalStatuses) =>
            \A next \in RunsAfter :
               Stepped(run, next) =>
                  orders' = orders /\ items' = items /\ queue' = queue]_vars

\* The status is kept, or changes along an edge of the transition table.
InTable(old, new) == new # old => <<old, new>> \in TransitionTable

\* C5: every change of a persisted status is an edge of the transition table
\* (a change outside the table is refused and leaves the status as it was).
C5_OnlyTableTransitions ==
    [][/\ \A i \in Items : InTable(items[i].status, items'[i].status)
       /\ \A o \in Orders : InTable(orders[o].status, orders'[o].status)]_vars

\* Every message a task can be sent as.
AllMsgs == {Msg(kind, arg) : kind \in {"order", "batch", "item"}, arg \in Identifiers \cup OrderIds \cup BatchIds}
\* How many copies of a message a step adds to the broker.
Sent(m) == CopiesIn(m, queue') - CopiesIn(m, queue)

\* C6: process_normal_order on a Submitted or Accepted order has persisted
\* InProduction when it sends its batch tasks, sends nothing before, and
\* sends exactly one process_batch per batch of the order; process_batch
\* sends exactly one process_order_item per item of the batch.
C6_FanOutAfterInProduction ==
    [][\A run \in Runs : \A next \in RunsAfter :
         Stepped(run, next) =>
            /\ run.kind = "order" /\ run.entry \in {"Submitted", "Accepted"} =>
                 IF next.pc = "done"
                 THEN /\ orders[run.arg].status = IN_PRODUCTION
                      /\ \A m \in AllMsgs :
                           Sent(m) = IF /\ m.kind = "batch"
                                        /\ m.arg \in Batches
                                        /\ OrderOf(m.arg) = run.arg
                                     THEN 1 ELSE 0
                 ELSE queue' = queue
            /\ run.kind = "batch" /\ run.arg \in Batches =>
                 \A m \in AllMsgs :
                    Sent(m) = IF m.kind = "item"
                              THEN Cardinality({i \in Items :
                                      BatchOf(i) = run.arg /\ identifier[i] = m.arg})
                              ELSE 0]_vars

\* An order task has fanned out to more than one batch, and one of these
\* batches, of more than one item, has fanned out to its items.
C6_Witness ==
    \E r1 \in Runs : \E r2 \in Runs :
       /\ r1.kind = "order" /\ r1.pc = "done" /\ r1.entry = "Submitted"
       /\ orders[r1.arg].status = IN_PRODUCTION
       /\ Cardinality(BatchesOfOrder(r1.arg)) > 1
       /\ r2.kind = "batch" /\ r2.pc = "done" /\ r2.arg \in BatchesOfOrder(r1.arg)
       /\ Cardinality(ItemsOfBatch(r2.arg)) > 1
       /\ \A i \in ItemsOfBatch(r2.arg) : BagIn(Msg("item", identifier[i]), queue)
       /\ \E b \in BatchesOfOrder(r1.arg) : BagIn(Msg("batch", b), queue)

\* C7: process_normal_order with the id of no order, and process_batch with
\* the id of no batch, end with ObjectDoesNotExist: no row is changed and no
\* task is sent.
C7_NotFoundRaises ==
    [][\A run \in Runs : \A next \in RunsAfter :
         /\ Stepped(run, next)
         /\ \/ run.kind = "order" /\ run.arg \notin Orders
            \/ run.kind = "batch" /\ run.arg \notin Batches
         => /\ next.pc = "raised" /\ next.error = "ObjectDoesNotExist"
            /\ orders' = orders /\ items' = items /\ queue' = queue]_vars

\* An order task and a batch task have both ended on a missing row.
C7_Witness ==
    \E r1 \in Runs : \E r2 \in Runs :
       /\ r1.kind = "order" /\ r1.arg \notin Orders
       /\ r1.pc = "raised" /\ r1.error = "ObjectDoesNotExist"
       /\ r2.kind = "batch" /\ r2.arg \notin Batches
       /\ r2.pc = "raised" /\ r2.error = "ObjectDoesNotExist"

\* The external steps of one item, in pipeline order.
PipelineOrder == <<"resolve", "fetch", "customize", "place">>
IsPrefix(s, t) == Len(s) <= Len(t) /\ \A k \in 1 .. Len(s) : s[k] = t[k]

\* C8: within one run of process_order_item the external steps are invoked
\* in the order resolve, fetch, customize, place, each at most once, and a
\* run that a step ended with an exception invokes nothing more.
C8_StepsInOrder ==
    [][\A run \in Runs :
         run.kind = "item" =>
            \A next \in RunsAfter :
               Stepped(run, next) =>
                  /\ run.pc # "raised"
                  /\ IsPrefix(run.invoked, next.invoked)
                  /\ IsPrefix(next.invoked, PipelineOrder)]_vars

\* A run has gone through all four steps and completed its item.
C8_Witness ==
    \E run \in Runs :
       /\ run.kind = "item" /\ run.pc = "done"
       /\ run.invoked = PipelineOrder
       /\ items[run.inst.id].status = COMPLETED

\* C9: when the catalogue does not resolve the identifier, the item's status
\* is set to Failed and no preparator step is invoked.
C9_ResolutionFailureSetsFailed ==
    \A run \in Runs :
       /\ run.kind = "item" /\ run.pc = "raised" /\ run.error = "IndexError"
       /\ UniqueIdentifier(run.arg)
       => /\ items[TheItem(run.arg)].status = "Failed"
          /\ run.invoked = <<"resolve">>

\* C10: a run of process_order_item that fetch, customize or move ended with
\* an exception, or whose move returned None, leaves its item Failed.
C10_PreparatorFailureSetsFailed ==
    \A run \in Runs :
       /\ run.kind = "item"
       /\ \/ run.pc = "raised" /\ run.error = "PreparatorError"
          \/ run.pc = "done" /\ run.moved.none
       => items[run.inst.id].status = "Failed"

\* ---------------------------------------------------------------- C11
\* The run has had its move() return a path: place succeeded.
PlaceSucceeded(run) ==
    /\ run.kind = "item"
    /\ run.pc = "save_completed"
    /\ ~run.moved.none

\* C11: when place succeeds, the step of process_order_item that follows
\* writes the item's file_name (the base name of the moved path), its
\* completed_on (a reading of the clock, never null) and the status Completed;
\* and the persisted status of an item becomes Completed by no other step.
C11_CompletedOnlyByPlace ==
    [][ /\ \A run \in Runs : \A next \in RunsAfter :
              (Stepped(run, next) /\ PlaceSucceeded(run)) =>
                  /\ items'[run.inst.id].status = "Completed"
                  /\ items'[run.inst.id].file_name = Basename(run.moved.path)
                  /\ items'[run.inst.id].file_name # ""
                  /\ items'[run.inst.id].completed_on # Null
                  /\ items'[run.inst.id].completed_on = clock
        /\ \A i \in Items :
              (items[i].status # "Completed" /\ items'[i].status = "Completed") =>
                  \E run \in Runs : \E next \in RunsAfter :
                      /\ Stepped(run, next)
                      /\ PlaceSucceeded(run)
                      /\ run.inst.id = i
                      /\ next.pc = "done"
      ]_vars

\* A run is done after a successful place and its item is Completed, with
\* the file name and the completion time recorded.
C11_Witness ==
    \E run \in Runs :
        /\ run.kind = "item" /\ run.pc = "done" /\ ~run.moved.none
        /\ items[run.inst.id].status = "Completed"
        /\ items[run.inst.id].file_name = "product"
        /\ items[run.inst.id].completed_on # Null

\* ---------------------------------------------------------------- C12
\* A run of process_order_item is in progress for item i.
StartedFor(i) ==
    \E run \in Runs :
        /\ run.kind = "item"
        /\ UniqueIdentifier(run.arg)
        /\ TheItem(run.arg) = i

\* C12: with workers that keep running and external calls that all return,
\* every item for which process_order_item is started eventually has the
\* status Completed or Failed.
C12_StartedItemReachesEnd ==
    \A i \in Items :
        StartedFor(i) ~> (items[i].status \in {"Completed", "Failed"})

\* ---------------------------------------------------------------- C13
\* The step the run invoked last.
LastInvoked(run) ==
    IF Len(run.invoked) = 0 THEN "" ELSE run.invoked[Len(run.invoked)]

\* C13: a run of process_order_item that ends because its attempts at fetch
\* have all failed leaves its item Failed, and a run whose fetch has succeeded
\* goes on with customize.
C13_FetchFailureEndsFailed ==
    \A run \in Runs :
       /\ (/\ run.kind = "item"
           /\ run.pc = "raised"
           /\ LastInvoked(run) = "fetch")
          => items[run.inst.id].status = "Failed"
       /\ (/\ run.kind = "item"
           /\ run.pc # "raised"
           /\ LastInvoked(run) = "fetch")
          => run.pc = "customize"

\* ---------------------------------------------------------------- C15
\* C15: when a run of process_batch has returned, every item of its batch is
\* in a terminal status; when a run of process_normal_order has returned,
\* none of the order's process_batch tasks is still waiting or running.
C15_TasksAreBarriers ==
    \A run \in Runs :
       /\ (run.kind = "batch" /\ run.pc = "done") =>
             \A i \in ItemsOfBatch(run.arg) : items[i].status \in TerminalStatuses
       /\ (run.kind = "order" /\ run.pc = "done") =>
             \A b \in BatchesOfOrder(run.arg) :
                /\ ~BagIn(Msg("batch", b), queue)
                /\ \A other \in Runs :
                      (other.kind = "batch" /\ other.arg = b) =>
                          other.pc \in {"done", "raised"}

\* ---------------------------------------------------------------- C16
\* Every item of the batch is Completed (or Downloaded).
BatchAllCompleted(b) ==
    \A i \in ItemsOfBatch(b) : items[i].status \in {"Completed", "Downloaded"}
\* The batch has a Failed item.
BatchHasFailed(b) ==
    \E i \in ItemsOfBatch(b) : items[i].status = "Failed"
\* The order has been taken up, nothing of the pipeline is waiting or running
\* any more, and each of its items is in a terminal status.
OutcomesKnown(o) ==
    /\ orders[o].status # "Submitted"
    /\ queue = EmptyBag
    /\ running = EmptyBag
    /\ \A b \in BatchesOfOrder(o) : \A i \in ItemsOfBatch(b) :
          items[i].status \in TerminalStatuses

\* C16: once the outcomes of all batches of an order are known, the order is
\* Failed if every batch failed, Completed if every batch completed, and
\* InProduction otherwise.
C16_OrderStatusFromBatches ==
    \A o \in Orders :
        OutcomesKnown(o) =>
            orders[o].status =
                IF \A b \in BatchesOfOrder(o) : BatchHasFailed(b) THEN "Failed"
                ELSE IF \A b \in BatchesOfOrder(o) : BatchAllCompleted(b)
                     THEN "Completed"
                     ELSE "InProduction"

\* ---------------------------------------------------------------- C18
\* The run of process_order_item is about item i.
RunOfItem(run, i) ==
    /\ run.kind = "item"
    /\ UniqueIdentifier(run.arg)
    /\ TheItem(run.arg) = i

\* C18: a run of process_batch or process_normal_order never raises because
\* of an item; and when the run for one item of a batch has raised while the
\* run for a sibling has come through its pipeline, the sibling is Completed
\* and the item that failed is Failed.
C18_ItemFailureIsContained ==
    /\ \A run \in Runs :
          (run.kind \in {"batch", "order"} /\ run.pc = "raised") =>
              /\ run.error = "ObjectDoesNotExist"
              /\ run.arg \notin (IF run.kind = "batch" THEN Batches ELSE Orders)
    /\ \A i \in Items : \A j \in ItemsOfBatch(BatchOf(i)) \ {i} :
          \A failed \in Runs : \A sibling \in Runs :
              (/\ RunOfItem(failed, i) /\ failed.pc = "raised"
               /\ RunOfItem(sibling, j) /\ sibling.pc = "done"
               /\ ~sibling.moved.none)
              => /\ items[j].status = "Completed"
                 /\ items[i].status = "Failed"

\* ---------------------------------------------------------------- C19
\* The run has returned or raised.
HasEnded(run) == run.pc \in {"done", "raised"}
\* The status the external outcomes of an ended run of process_order_item
\* stand for: Completed when move returned a path, Submitted when the
\* catalogue or the database lookup failed, InProduction otherwise.
OutcomeStatus(run) ==
    IF run.pc = "done" /\ ~run.moved.none THEN "Completed"
    ELSE IF run.pc = "raised" /\ run.error # "PreparatorError" THEN "Submitted"
    ELSE "InProduction"

\* C19: in the processing of one batch, whatever the order in which the item
\* tasks are taken, run and ended, the status each item is left with is the
\* one the external outcomes of its own task stand for, and nothing but a step
\* of its own task writes the item.
C19_OutcomesDecideStatuses ==
    /\ [](\A run \in Runs : \A i \in ItemsWithIdentifier(run.arg) :
             (run.kind = "item" /\ HasEnded(run)) =>
                 items[i].status = OutcomeStatus(run))
    /\ [][\A i \in Items :
             items'[i] # items[i] =>
                 \E run \in Runs : \E next \in RunsAfter :
                     /\ Stepped(run, next)
                     /\ run.kind = "item"
                     /\ run.arg = identifier[i]
                     /\ ~HasEnded(run)
       ]_vars

\* The tasks of two items of a batch have ended, in the pool at once, one
\* with a moved file and one with an exception of the preparator.
C19_Witness ==
    \E r1 \in Runs : \E r2 \in Runs :
        /\ r1.kind = "item" /\ r2.kind = "item"
        /\ r1.arg # r2.arg
        /\ r1.pc = "done" /\ ~r1.moved.none
        /\ r2.pc = "raised" /\ r2.error = "PreparatorError"
        /\ r1.inst.id \in ItemsOfBatch(1)
        /\ r2.inst.id \in ItemsOfBatch(1)
        /\ items[r1.inst.id].status = "Completed"
        /\ items[r2.inst.id].status = "InProduction"

\* ---------------------------------------------------------------- C20
\* The order the item belongs to.
OrderOfItem(i) == OrderOf(BatchOf(i))
\* A worker takes message m in this step.
Taken(m) ==
    /\ started' = started + 1
    /\ BagIn(m, queue)
    /\ queue' = queue (-) SetToBag({m})

\* C20: while its order is Cancelled, no worker takes the process_order_item
\* task of an item, so that an item that is Submitted with no task in progress
\* stays Submitted; and an item that is Completed stays Completed.
C20_CancelledOrderStartsNoItem ==
    [][\A i \in Items :
          orders[OrderOfItem(i)].status = "Cancelled" =>
              /\ ~Taken(Msg("item", identifier[i]))
              /\ items[i].status = "Completed" => items'[i].status = "Completed"
      ]_vars

\* ---------------------------------------------------------------- C21
\* C21: no save is based on a stale read: when a run saves an Order or an
\* OrderItem, the row it overwrites is still the one the run loaded, or last
\* saved itself; no other task has written the row in between.
C21_NoStaleWrite ==
    [][\A run \in Runs : \A next \in RunsAfter :
         Stepped(run, next) =>
            /\ SavesItem(run) => items[run.inst.id] = ItemRow(run.inst)
            /\ SavesOrder(run) => orders[run.inst.id] = OrderRow(run.inst)
      ]_vars

\* ---------------------------------------------------------------- C22
\* C22: a step of a run of process_batch or process_order_item leaves every
\* Order row as it is; an Order row is changed only by a step of a run of
\* process_normal_order.
C22_OnlyOrderTaskWritesOrder ==
    [][/\ \A run \in Runs : \A next \in RunsAfter :
             (Stepped(run, next) /\ run.kind \in {"batch", "item"}) =>
                 orders' = orders
       /\ orders' # orders =>
             \E run \in Runs : \E next \in RunsAfter :
                 Stepped(run, next) /\ run.kind = "order"
      ]_vars

\* A process_order_item run has saved its item, Completed, while the order of
\* the item, that no process_normal_order has touched, is still Submitted.
C22_Witness ==
    \E run \in Runs :
        /\ run.kind = "item" /\ run.pc = "done"
        /\ items[run.inst.id].status = "Completed"
        /\ orders[OrderOf(BatchOf(run.inst.id))].status = "Submitted"

\* ---------------------------------------------------------------- C24
\* C24: once a run of process_order_item has invoked the catalogue resolver,
\* whether the resolution then failed or not, the persisted status of its item
\* is no longer Submitted or Accepted.
C24_InProductionBeforeResolve ==
    \A run \in Runs :
        (/\ run.kind = "item"
         /\ UniqueIdentifier(run.arg)
         /\ Len(run.invoked) > 0 /\ run.invoked[1] = "resolve")
        => items[TheItem(run.arg)].status \notin {"Submitted", "Accepted"}

\* ---------------------------------------------------------------- C25
\* C25: in the processing of one batch, every process_order_item task finds
\* the one OrderItem it was sent for, whatever the identifiers of the items of
\* other batches are: its lookup never fails for want of the item or on an
\* item of another batch.
C25_ItemTaskFindsItsItem ==
    \A run \in Runs :
        run.kind = "item" =>
            run.error \notin {"MultipleObjectsReturned", "DoesNotExist"}

\* ---------------------------------------------------------------- C26
\* C26: after any save of an Order or OrderItem the row's status_changed_on
\* is set, also when it was null and the status saved is the status observed
\* at load.
C26_SavedRowIsStamped ==
    [][\A run \in Runs : \A next \in RunsAfter :
         Stepped(run, next) =>
            /\ SavesItem(run) => items'[run.inst.id].status_changed_on # Null
            /\ SavesOrder(run) => orders'[run.inst.id].status_changed_on # Null
      ]_vars

\* A run has loaded an item that was InProduction with a null
\* status_changed_on, saved it InProduction, and the row is stamped with the
\* time of that save.
C26_Witness ==
    \E run \in Runs :
        /\ run.kind = "item" /\ run.pc = "fetch"
        /\ run.inst.old_status = "InProduction"
        /\ run.inst.status = "InProduction"
        /\ run.inst.status_changed_on >= 2
        /\ items[run.inst.id].status_changed_on = run.inst.status_changed_on

\* ---------------------------------------------------------------- C27
\* C27: an OrderItem that is Completed has a file_name and a completed_on
\* recorded, and an OrderItem that is Submitted, Accepted or InProduction has
\* no completed_on.
C27_CompletionFieldsMatchStatus ==
    \A i \in Items :
        /\ items[i].status = "Completed" =>
              (items[i].file_name # "" /\ items[i].completed_on # Null)
        /\ items[i].status \in {"Submitted", "Accepted", "InProduction"} =>
              items[i].completed_on = Null

\* ---------------------------------------------------------------- C28
\* C28: the persisted status of an OrderItem never goes from Submitted or
\* Accepted to Completed in one step, and whenever a run of process_order_item
\* has invoked fetch the persisted status of its item is no longer Submitted
\* or Accepted: InProduction was persisted before.
C28_InProductionBeforeCompleted ==
    /\ [](\A run \in Runs :
             (run.kind = "item" /\ Len(run.invoked) >= 2) =>
                 items[run.inst.id].status \notin {"Submitted", "Accepted"})
    /\ [][\A i \in Items :
             items[i].status \in {"Submitted", "Accepted"} =>
                 items'[i].status # "Completed"
       ]_vars

\* An item, Submitted when its task was taken, is Completed, the run done.
C28_Witness ==
    \E run \in Runs :
        /\ run.kind = "item" /\ run.pc = "done" /\ ~run.moved.none
        /\ run.entry = "Submitted"
        /\ run.inst.old_status = "Submitted"
        /\ items[run.inst.id].status = "Completed"
        /\ items[run.inst.id].status_changed_on # Null

\* ---------------------------------------------------------------- C29
\* The order has not been marked InProduction yet.
NotYetInProduction(o) == orders[o].status \in {"Submitted", "Accepted"}
\* A task, waiting or running, has been dispatched too early: it is the task
\* of a batch of an order not yet InProduction, or the task of an item that
\* only orders not yet InProduction hold.
TooEarly(kind, arg) ==
    \/ kind = "batch" /\ arg \in Batches /\ NotYetInProduction(OrderOf(arg))
    \/ kind = "item" /\ \A i \in ItemsWithIdentifier(arg) :
                           NotYetInProduction(OrderOfItem(i))

\* C29: with processing driven through process_normal_order only, no item is
\* InProduction or Completed while its order is still Submitted or Accepted,
\* and no batch or item task is waiting or running for an order in those
\* statuses.
C29_OrderInProductionFirst ==
    /\ \A i \in Items :
          items[i].status \in {"InProduction", "Completed"} =>
              ~NotYetInProduction(OrderOfItem(i))
    /\ \A m \in BagToSet(queue) : ~TooEarly(m.kind, m.arg)
    /\ \A run \in Runs : ~TooEarly(run.kind, run.arg)

\* The order is InProduction, one item of it is Completed and another one
\* InProduction.
C29_Witness ==
    \E i \in Items : \E j \in Items :
        /\ OrderOfItem(i) = OrderOfItem(j)
        /\ orders[OrderOfItem(i)].status = "InProduction"
        /\ items[i].status = "Completed"
        /\ items[j].status = "InProduction"

\* ---------------------------------------------------------------- C30
\* The order reference of the request, None taken as the empty string.
ReferenceText(req) ==
    IF req.orderReference = PyNone THEN "" ELSE req.orderReference.str
\* The request is for a massive order: a PRODUCT ORDER whose reference is the
\* configured massive-order reference.
IsMassive(req) ==
    /\ req.orderType = "PRODUCT_ORDER"
    /\ req.massive_reference # PyNone
    /\ PyStr(ReferenceText(req)) = req.massive_reference

\* C30: _get_order_type returns the massive-order type if and only if the
\* request is for a massive order, and in every other case the type the
\* specification names (there being no such type, the lookup of it raises).
C30_MassiveIffReferenceMatches ==
    returned # NoOrderType =>
        returned = IF IsMassive(request) THEN "MASSIVE_ORDER"
                     ELSE IF request.orderType \in OrderTypeNames
                          THEN request.orderType
                          ELSE "DoesNotExist"

====
